---- MODULE Spec2Model ----
(***************************************************************************)
(* Model of kindle_capture.py: the capture session (main, capture_pages,   *)
(* the stop flag and its handlers), the consensus search of                *)
(* calibrate_book_region, the navigation locator (detect_arrow_positions / *)
(* find_arrow_button), find_text_in_region, the bounded wait               *)
(* wait_for_fullscreen_message_to_disappear and images_are_similar; and of *)
(* the page classifier of create_markdown.py (ocr_image, analyze_page)     *)
(* with the longest-run loop it shares with cleanup_images.py.             *)
(***************************************************************************)
EXTENDS Integers, Sequences, FiniteSets, TLC

VARIABLES
    \* ---- capture session (main / capture_pages) ----
    pc,               \* position of the main thread
    STOP_FLAG,        \* global stop flag
    keyboard_listener,\* TRUE while the pynput listener is running
    book,             \* the pages the viewer has shown so far, the last one on screen
    at_end,           \* TRUE once an advance found no further page
    files,            \* output folder: page index -> image of page_%04d.png
    writes,           \* sequence of page indices saved by capture_pages
    page_num,         \* capture_pages local
    no_change_count,  \* capture_pages local
    last_page_image,  \* capture_pages local (None or an image)
    book_page,        \* capture_pages local: crop of the current tick
    captured_pages,   \* main local
    outcome,          \* banner printed by main: "none", "completed", "aborted", "prep_failed"
    exit_status,      \* argument of sys.exit, -1 while running
    loop_end,         \* how capture_pages left its loop: "none", "idle", "stop", "lost"
    grabs,            \* number of grab_kindle_screenshot calls made by capture_pages
    advances,         \* number of click_next_page calls made by capture_pages
    tick_log,         \* history: "similar" / "different" per compared frame
    stop_mark,        \* history: pages saved and ticks started when STOP_FLAG was set
    \* ---- calibrate_book_region ----
    cal_pc,               \* "start", "search", "finish", "returned"
    max_pages_to_search,  \* parameter
    loop_i,               \* loop variable i of the search loop
    min_left, min_top, max_bottom,
    pages_navigated,
    recent_right_edges,
    found_stable_right,
    stable_right_edge,
    full_width_count,
    right_source,         \* which branch set stable_right_edge
    cal_region,           \* returned value: None or <<left, top, right, bottom>>
    cal_result,           \* "none", "direct", "search", "failed", "stopped"
    next_clicks,          \* click_next_page calls made by the calibration
    prev_clicks,          \* click_prev_page calls made by the calibration
    title_edges,          \* edges scanned by the direct detection, None before
    \* ---- detect_arrow_positions ----
    nav_pc,               \* "right", "left", "centre", "returned"
    book_region,          \* argument: None or <<left, top, right, bottom>>
    ARROW_RIGHT_POS,      \* global: None or <<x, y>>
    ARROW_LEFT_POS,       \* global: None or <<x, y>>
    pointer,              \* target of the last pyautogui.moveTo, None before
    nav_log,              \* pointer moves and screen captures, in order
    right_peak,           \* peak column gradient of the right strip against
                          \* 2x the mean: "below", "equal", "above"
    left_peak,            \* the same for the left strip
    \* ---- create_markdown.py: ocr_image / analyze_page ----
    page_pc,              \* "ocr", "analyze", "done"
    page_image,           \* the page image: sequence of pixel rows
    engine_lines,         \* what the OCR engine recognizes on the page
    page_lines,           \* value returned by ocr_image
    page_type,            \* value returned by analyze_page, "none" before
    min_gfx_height,       \* analyze_page local, None while not computed
    \* ---- the max_consecutive loop of the classifiers ----
    run_pc,               \* "loop", "done"
    run_rows,             \* the boolean row sequence iterated over
    run_i,                \* number of rows consumed
    current,              \* loop local
    max_consecutive,      \* loop local
    \* ---- images_are_similar ----
    sim_pc,               \* "call", "done"
    sim_a, sim_b,         \* arguments: None or an image
    sim_result,           \* returned value, None before
    \* ---- find_text_in_region ----
    find_pc,              \* "call", "done"
    find_words,           \* what ocr_image returns for the grabbed region
    region_bbox,          \* argument (left, top, right, bottom)
    search_text,          \* argument, a sequence of characters
    take_topmost,         \* argument
    scale_factor,         \* argument
    find_result,          \* returned value
    \* ---- wait_for_fullscreen_message_to_disappear ----
    wait_pc,              \* "start", "check", "poll", "returned", "exited"
    wait_i,               \* loop variable i
    wait_checks,          \* calls of check_stop_and_exit so far
    wait_polls,           \* calls of find_text_in_region so far
    wait_found,           \* did the last poll find the banner
    wait_result           \* returned value, None before

sessionVars == <<pc, keyboard_listener, book, at_end, files, writes,
                 page_num, no_change_count, last_page_image, book_page,
                 captured_pages, outcome, exit_status, loop_end, grabs,
                 advances, tick_log, stop_mark>>

calVars == <<cal_pc, max_pages_to_search, loop_i, min_left, min_top,
             max_bottom, pages_navigated, recent_right_edges,
             found_stable_right, stable_right_edge, full_width_count,
             right_source, cal_region, cal_result, next_clicks, prev_clicks,
             title_edges>>

navVars == <<nav_pc, book_region, ARROW_RIGHT_POS, ARROW_LEFT_POS, pointer,
             nav_log, right_peak, left_peak>>

pageVars == <<page_pc, page_image, engine_lines, page_lines, page_type,
              min_gfx_height>>

runVars == <<run_pc, run_rows, run_i, current, max_consecutive>>

simVars == <<sim_pc, sim_a, sim_b, sim_result>>

findVars == <<find_pc, find_words, region_bbox, search_text, take_topmost,
              scale_factor, find_result>>

waitVars == <<wait_pc, wait_i, wait_checks, wait_polls, wait_found,
              wait_result>>

vars == <<STOP_FLAG, sessionVars, calVars, navVars, pageVars, runVars,
          simVars, findVars, waitVars>>

\* what the steps of one function leave unchanged
notSession == <<calVars, navVars, pageVars, runVars, simVars, findVars,
                waitVars>>
notCal == <<STOP_FLAG, sessionVars, navVars, pageVars, runVars, simVars,
            findVars, waitVars>>
notNav == <<STOP_FLAG, sessionVars, calVars, pageVars, runVars, simVars,
            findVars, waitVars>>
notPage == <<STOP_FLAG, sessionVars, calVars, navVars, runVars, simVars,
             findVars, waitVars>>
notRun == <<STOP_FLAG, sessionVars, calVars, navVars, pageVars, simVars,
            findVars, waitVars>>
notSim == <<STOP_FLAG, sessionVars, calVars, navVars, pageVars, runVars,
            findVars, waitVars>>
notFind == <<STOP_FLAG, sessionVars, calVars, navVars, pageVars, runVars,
             simVars, waitVars>>
notWait == <<sessionVars, calVars, navVars, pageVars, runVars, simVars,
             findVars>>

-----------------------------------------------------------------------------
(* Bounds and program constants *)

MaxBook == 4                 \* longest document the viewer shows

MAX_NO_CHANGE_COUNT == 3

\* grey values of the one-pixel crops; 0/2 and 2/3 are similar, 0/3 is not
PixelVals == {0, 2, 3, 6, 9, 12}

-----------------------------------------------------------------------------
(* Images *)

None == [isNone |-> TRUE]

MkImage(w, h, px) == [w |-> w, h |-> h, px |-> px]

\* the crops screenshot.crop(book_region) can yield: one fixed size
Crops == { MkImage(1, 1, <<v>>) : v \in PixelVals }

Abs(x) == IF x < 0 THEN -x ELSE x

RECURSIVE SumAbsDiff(_, _, _)
SumAbsDiff(p, q, n) ==
    IF n = 0 THEN 0 ELSE Abs(p[n] - q[n]) + SumAbsDiff(p, q, n - 1)

\* similarity = 1 - mean(|a - b|) / 255 > 0.99, i.e. 100 * sum < 255 * n;
\* the mean of an empty array is nan and nan > threshold is False
images_are_similar(img1, img2) ==
    IF img1 = None \/ img2 = None THEN FALSE
    ELSE IF <<img1.w, img1.h>> # <<img2.w, img2.h>> THEN FALSE
    ELSE LET n == img1.w * img1.h
         IN  IF n = 0 THEN FALSE
             ELSE 100 * SumAbsDiff(img1.px, img2.px, n) < 255 * n

-----------------------------------------------------------------------------
(* Stop flag handlers *)

\* ticks of capture_pages whose stop check has passed
TicksStarted == grabs + (IF pc = "grab" THEN 1 ELSE 0)

\* keyboard hook: any key sets the flag and stops the listener
on_key_press ==
    /\ UNCHANGED notSession
    /\ UNCHANGED tick_log
    /\ stop_mark' = IF STOP_FLAG THEN stop_mark
                    ELSE [writes |-> Len(writes), ticks |-> TicksStarted]
    /\ keyboard_listener
    /\ pc # "exited"
    /\ STOP_FLAG' = TRUE
    /\ keyboard_listener' = FALSE
    /\ UNCHANGED <<pc, book, at_end, files, writes, page_num,
                   no_change_count, last_page_image, book_page,
                   captured_pages, outcome, exit_status, loop_end, grabs,
                   advances>>

\* SIGINT handler, installed at import time
signal_handler ==
    /\ UNCHANGED notSession
    /\ UNCHANGED tick_log
    /\ stop_mark' = IF STOP_FLAG THEN stop_mark
                    ELSE [writes |-> Len(writes), ticks |-> TicksStarted]
    /\ pc # "exited"
    /\ ~STOP_FLAG
    /\ STOP_FLAG' = TRUE
    /\ UNCHANGED <<pc, keyboard_listener, book, at_end, files, writes,
                   page_num, no_change_count, last_page_image, book_page,
                   captured_pages, outcome, exit_status, loop_end, grabs,
                   advances>>

-----------------------------------------------------------------------------
(* main *)

\* a stale page file left by an earlier session
StalePages == { <<>>, <<MkImage(1, 1, <<12>>)>> }

\* calibrate_book_region not running
CalIdle ==
    /\ cal_pc = "returned"
    /\ max_pages_to_search = 0
    /\ loop_i = 0
    /\ min_left = 99999
    /\ min_top = 99999
    /\ max_bottom = 0
    /\ pages_navigated = 0
    /\ recent_right_edges = <<>>
    /\ found_stable_right = FALSE
    /\ stable_right_edge = 0
    /\ full_width_count = 0
    /\ right_source = "none"
    /\ cal_region = None
    /\ cal_result = "none"
    /\ next_clicks = 0
    /\ prev_clicks = 0
    /\ title_edges = None

\* detect_arrow_positions not running
NavIdle ==
    /\ nav_pc = "returned"
    /\ book_region = None
    /\ ARROW_RIGHT_POS = None
    /\ ARROW_LEFT_POS = None
    /\ pointer = None
    /\ nav_log = <<>>
    /\ right_peak = "none"
    /\ left_peak = "none"

\* ocr_image / analyze_page not running
PageIdle ==
    /\ page_pc = "done"
    /\ page_image = <<>>
    /\ engine_lines = <<>>
    /\ page_lines = <<>>
    /\ page_type = "none"
    /\ min_gfx_height = None

\* the max_consecutive loop not running
RunIdle ==
    /\ run_pc = "done"
    /\ run_rows = <<>>
    /\ run_i = 0
    /\ current = 0
    /\ max_consecutive = 0

\* images_are_similar not running
SimIdle ==
    /\ sim_pc = "done"
    /\ sim_a = None
    /\ sim_b = None
    /\ sim_result = None

\* find_text_in_region not running
FindIdle ==
    /\ find_pc = "done"
    /\ find_words = <<>>
    /\ region_bbox = None
    /\ search_text = <<>>
    /\ take_topmost = TRUE
    /\ scale_factor = 2
    /\ find_result = None

\* wait_for_fullscreen_message_to_disappear not running
WaitIdle ==
    /\ wait_pc = "returned"
    /\ wait_i = 0
    /\ wait_checks = 0
    /\ wait_polls = 0
    /\ wait_found = FALSE
    /\ wait_result = None

Init ==
    /\ CalIdle
    /\ NavIdle
    /\ PageIdle
    /\ RunIdle
    /\ SimIdle
    /\ FindIdle
    /\ WaitIdle
    /\ pc = "prepare"
    /\ STOP_FLAG = FALSE
    /\ keyboard_listener = FALSE
    /\ book \in [1..1 -> Crops]
    /\ at_end = FALSE
    /\ files \in StalePages
    /\ writes = <<>>
    /\ page_num = 1
    /\ no_change_count = 0
    /\ last_page_image = None
    /\ book_page = None
    /\ captured_pages = 0
    /\ outcome = "none"
    /\ exit_status = -1
    /\ loop_end = "none"
    /\ grabs = 0
    /\ advances = 0
    /\ tick_log = <<>>
    /\ stop_mark = None

\* prepare_kindle_for_capture returned a region; start_keyboard_listener
main_prepare_ok ==
    /\ UNCHANGED notSession
    /\ UNCHANGED <<tick_log, stop_mark>>
    /\ pc = "prepare"
    /\ pc' = "clear"
    /\ keyboard_listener' = TRUE
    /\ UNCHANGED <<STOP_FLAG, book, at_end, files, writes, page_num,
                   no_change_count, last_page_image, book_page,
                   captured_pages, outcome, exit_status, loop_end, grabs,
                   advances>>

\* main_prepare_failed emptying the output folder before it exits
main_prepare_failed_clears ==
    /\ UNCHANGED notSession
    /\ UNCHANGED <<tick_log, stop_mark>>
    /\ pc = "prepare"
    /\ pc' = "exited"
    /\ outcome' = "prep_failed"
    /\ exit_status' = 1
    /\ files' = <<>>
    /\ UNCHANGED <<STOP_FLAG, keyboard_listener, book, at_end, writes,
                   page_num, no_change_count, last_page_image, book_page,
                   captured_pages, loop_end, grabs, advances>>

\* prepare_kindle_for_capture returned None: sys.exit(1)
main_prepare_failed ==
    /\ UNCHANGED notSession
    /\ UNCHANGED <<tick_log, stop_mark>>
    /\ pc = "prepare"
    /\ pc' = "exited"
    /\ outcome' = "prep_failed"
    /\ exit_status' = 1
    /\ UNCHANGED <<STOP_FLAG, keyboard_listener, book, at_end, files,
                   writes, page_num, no_change_count, last_page_image,
                   book_page, captured_pages, loop_end, grabs, advances>>

\* clear_output_folder, then capture_pages is entered and sets its locals
clear_output_folder ==
    /\ UNCHANGED notSession
    /\ UNCHANGED <<tick_log, stop_mark>>
    /\ pc = "clear"
    /\ files' = <<>>
    /\ page_num' = 1
    /\ no_change_count' = 0
    /\ last_page_image' = None
    /\ captured_pages' = 0
    /\ pc' = "loop"
    /\ UNCHANGED <<STOP_FLAG, keyboard_listener, book, at_end, writes,
                   book_page, outcome, exit_status, loop_end, grabs, advances>>

-----------------------------------------------------------------------------
(* capture_pages *)

\* `return page_num - 1`, assigned to captured_pages by main
capture_return(how) ==
    /\ captured_pages' = page_num - 1
    /\ loop_end' = how
    /\ pc' = "finally"

\* loop_head stopping at the first unchanged tick instead of the third
loop_head_first_repeat ==
    /\ UNCHANGED notSession
    /\ UNCHANGED <<tick_log, stop_mark>>
    /\ pc = "loop"
    /\ IF no_change_count < 1
       THEN IF STOP_FLAG
            THEN /\ keyboard_listener' = FALSE
                 /\ loop_end' = "stop"
                 /\ pc' = "finally"
                 /\ UNCHANGED captured_pages
            ELSE /\ pc' = "grab"
                 /\ UNCHANGED <<keyboard_listener, loop_end, captured_pages>>
       ELSE /\ capture_return("idle")
            /\ UNCHANGED keyboard_listener
    /\ UNCHANGED <<STOP_FLAG, book, at_end, files, writes, page_num,
                   no_change_count, last_page_image, book_page, outcome,
                   exit_status, grabs, advances>>

\* loop_head without the call of check_stop_and_exit
loop_head_no_stop_check ==
    /\ UNCHANGED notSession
    /\ UNCHANGED <<tick_log, stop_mark>>
    /\ pc = "loop"
    /\ IF no_change_count < MAX_NO_CHANGE_COUNT
       THEN /\ pc' = "grab"
            /\ UNCHANGED <<keyboard_listener, loop_end, captured_pages>>
       ELSE /\ capture_return("idle")
            /\ UNCHANGED keyboard_listener
    /\ UNCHANGED <<STOP_FLAG, book, at_end, files, writes, page_num,
                   no_change_count, last_page_image, book_page, outcome,
                   exit_status, grabs, advances>>

\* loop condition, then check_stop_and_exit: SystemExit passes through
\* capture_pages (re-raised) and is swallowed by main, which skips the
\* assignment to captured_pages
loop_head ==
    /\ UNCHANGED notSession
    /\ UNCHANGED <<tick_log, stop_mark>>
    /\ pc = "loop"
    /\ IF no_change_count < MAX_NO_CHANGE_COUNT
       THEN IF STOP_FLAG
            THEN /\ keyboard_listener' = FALSE
                 /\ loop_end' = "stop"
                 /\ pc' = "finally"
                 /\ UNCHANGED captured_pages
            ELSE /\ pc' = "grab"
                 /\ UNCHANGED <<keyboard_listener, loop_end, captured_pages>>
       ELSE /\ capture_return("idle")
            /\ UNCHANGED keyboard_listener
    /\ UNCHANGED <<STOP_FLAG, book, at_end, files, writes, page_num,
                   no_change_count, last_page_image, book_page, outcome,
                   exit_status, grabs, advances>>

\* grab_kindle_screenshot returned a frame; crop it to the book region
grab_frame ==
    /\ UNCHANGED notSession
    /\ UNCHANGED <<tick_log, stop_mark>>
    /\ pc = "grab"
    /\ grabs' = grabs + 1
    /\ book_page' = book[Len(book)]
    /\ pc' = "compare"
    /\ UNCHANGED <<STOP_FLAG, keyboard_listener, book, at_end, files,
                   writes, page_num, no_change_count, last_page_image,
                   captured_pages, outcome, exit_status, loop_end, advances>>

\* grab_lost with `continue` in place of `break`
grab_lost_retry ==
    /\ UNCHANGED notSession
    /\ UNCHANGED <<tick_log, stop_mark>>
    /\ pc = "grab"
    /\ grabs' = grabs + 1
    /\ loop_end' = "lost"
    /\ pc' = "loop"
    /\ UNCHANGED <<STOP_FLAG, keyboard_listener, book, at_end, files,
                   writes, page_num, no_change_count, last_page_image,
                   book_page, captured_pages, outcome, exit_status, advances>>

\* grab_kindle_screenshot returned None: break
grab_lost ==
    /\ UNCHANGED notSession
    /\ UNCHANGED <<tick_log, stop_mark>>
    /\ pc = "grab"
    /\ grabs' = grabs + 1
    /\ capture_return("lost")
    /\ UNCHANGED <<STOP_FLAG, keyboard_listener, book, at_end, files,
                   writes, page_num, no_change_count, last_page_image,
                   book_page, outcome, exit_status, advances>>

\* compare_and_save numbering the file after the increment of page_num
compare_and_save_skip_index ==
    /\ UNCHANGED notSession
    /\ UNCHANGED stop_mark
    /\ pc = "compare"
    /\ IF images_are_similar(book_page, last_page_image)
       THEN /\ no_change_count' = no_change_count + 1
            /\ tick_log' = Append(tick_log, "similar")
            /\ UNCHANGED <<files, writes, last_page_image, page_num>>
       ELSE /\ no_change_count' = 0
            /\ tick_log' = Append(tick_log, "different")
            /\ files' = [i \in (DOMAIN files) \cup {page_num + 1} |->
                            IF i = page_num + 1 THEN book_page ELSE files[i]]
            /\ writes' = Append(writes, page_num + 1)
            /\ last_page_image' = book_page
            /\ page_num' = page_num + 1
    /\ pc' = "click"
    /\ UNCHANGED <<STOP_FLAG, keyboard_listener, book, at_end, book_page,
                   captured_pages, outcome, exit_status, loop_end, grabs,
                   advances>>

\* compare_and_save that does not reset the counter on a different crop
compare_and_save_no_reset ==
    /\ UNCHANGED notSession
    /\ UNCHANGED stop_mark
    /\ pc = "compare"
    /\ IF images_are_similar(book_page, last_page_image)
       THEN /\ no_change_count' = no_change_count + 1
            /\ tick_log' = Append(tick_log, "similar")
            /\ UNCHANGED <<files, writes, last_page_image, page_num>>
       ELSE /\ UNCHANGED no_change_count
            /\ tick_log' = Append(tick_log, "different")
            /\ files' = [i \in (DOMAIN files) \cup {page_num} |->
                            IF i = page_num THEN book_page ELSE files[i]]
            /\ writes' = Append(writes, page_num)
            /\ last_page_image' = book_page
            /\ page_num' = page_num + 1
    /\ pc' = "click"
    /\ UNCHANGED <<STOP_FLAG, keyboard_listener, book, at_end, book_page,
                   captured_pages, outcome, exit_status, loop_end, grabs,
                   advances>>

\* compare_and_save leaving the loop without an advance on the tick that
\* brings the counter to the threshold
compare_and_save_skip_last_advance ==
    /\ UNCHANGED notSession
    /\ UNCHANGED stop_mark
    /\ pc = "compare"
    /\ IF images_are_similar(book_page, last_page_image)
       THEN /\ no_change_count' = no_change_count + 1
            /\ tick_log' = Append(tick_log, "similar")
            /\ pc' = IF no_change_count + 1 >= MAX_NO_CHANGE_COUNT
                     THEN "loop" ELSE "click"
            /\ UNCHANGED <<files, writes, last_page_image, page_num>>
       ELSE /\ no_change_count' = 0
            /\ tick_log' = Append(tick_log, "different")
            /\ files' = [i \in (DOMAIN files) \cup {page_num} |->
                            IF i = page_num THEN book_page ELSE files[i]]
            /\ writes' = Append(writes, page_num)
            /\ last_page_image' = book_page
            /\ page_num' = page_num + 1
            /\ pc' = "click"
    /\ UNCHANGED <<STOP_FLAG, keyboard_listener, book, at_end, book_page,
                   captured_pages, outcome, exit_status, loop_end, grabs,
                   advances>>

\* compare_and_save remembering every captured crop, so that the next tick
\* is compared with the last captured frame
compare_and_save_last_captured ==
    /\ UNCHANGED notSession
    /\ UNCHANGED stop_mark
    /\ pc = "compare"
    /\ IF images_are_similar(book_page, last_page_image)
       THEN /\ no_change_count' = no_change_count + 1
            /\ tick_log' = Append(tick_log, "similar")
            /\ last_page_image' = book_page
            /\ UNCHANGED <<files, writes, page_num>>
       ELSE /\ no_change_count' = 0
            /\ tick_log' = Append(tick_log, "different")
            /\ files' = [i \in (DOMAIN files) \cup {page_num} |->
                            IF i = page_num THEN book_page ELSE files[i]]
            /\ writes' = Append(writes, page_num)
            /\ last_page_image' = book_page
            /\ page_num' = page_num + 1
    /\ pc' = "click"
    /\ UNCHANGED <<STOP_FLAG, keyboard_listener, book, at_end, book_page,
                   captured_pages, outcome, exit_status, loop_end, grabs,
                   advances>>

\* compare with the last saved crop; save under page_num when different.
\* The saved file exists as soon as save returns, so the wait loop on
\* filepath.exists() runs no iteration.
compare_and_save ==
    /\ UNCHANGED notSession
    /\ UNCHANGED stop_mark
    /\ pc = "compare"
    /\ IF images_are_similar(book_page, last_page_image)
       THEN /\ no_change_count' = no_change_count + 1
            /\ tick_log' = Append(tick_log, "similar")
            /\ UNCHANGED <<files, writes, last_page_image, page_num>>
       ELSE /\ no_change_count' = 0
            /\ tick_log' = Append(tick_log, "different")
            /\ files' = [i \in (DOMAIN files) \cup {page_num} |->
                            IF i = page_num THEN book_page ELSE files[i]]
            /\ writes' = Append(writes, page_num)
            /\ last_page_image' = book_page
            /\ page_num' = page_num + 1
    /\ pc' = "click"
    /\ UNCHANGED <<STOP_FLAG, keyboard_listener, book, at_end, book_page,
                   captured_pages, outcome, exit_status, loop_end, grabs,
                   advances>>

\* a tick that gives up before its advance once STOP_FLAG is set
click_next_page_checks_stop ==
    /\ UNCHANGED notSession
    /\ UNCHANGED <<tick_log, stop_mark>>
    /\ pc = "click"
    /\ IF STOP_FLAG
       THEN /\ keyboard_listener' = FALSE
            /\ loop_end' = "stop"
            /\ pc' = "finally"
            /\ UNCHANGED <<advances, book, at_end>>
       ELSE /\ advances' = advances + 1
            /\ \/ /\ ~at_end
                  /\ Len(book) < MaxBook
                  /\ \E c \in Crops : book' = Append(book, c)
                  /\ UNCHANGED at_end
               \/ /\ at_end' = TRUE
                  /\ UNCHANGED book
            /\ pc' = "loop"
            /\ UNCHANGED <<keyboard_listener, loop_end>>
    /\ UNCHANGED <<STOP_FLAG, files, writes, page_num, no_change_count,
                   last_page_image, book_page, captured_pages, outcome,
                   exit_status, grabs>>

\* click_next_page: the viewer turns to the next page of the document, or
\* keeps showing the last page when there is none
click_next_page ==
    /\ UNCHANGED notSession
    /\ UNCHANGED <<tick_log, stop_mark>>
    /\ pc = "click"
    /\ advances' = advances + 1
    /\ \/ /\ ~at_end
          /\ Len(book) < MaxBook
          /\ \E c \in Crops : book' = Append(book, c)
          /\ UNCHANGED at_end
       \/ /\ at_end' = TRUE
          /\ UNCHANGED book
    /\ pc' = "loop"
    /\ UNCHANGED <<STOP_FLAG, keyboard_listener, files, writes, page_num,
                   no_change_count, last_page_image, book_page,
                   captured_pages, outcome, exit_status, loop_end, grabs>>

-----------------------------------------------------------------------------
(* main, after capture_pages *)

\* finally: stop_keyboard_listener(); exit_fullscreen_and_minimize()
main_finally ==
    /\ UNCHANGED notSession
    /\ UNCHANGED <<tick_log, stop_mark>>
    /\ pc = "finally"
    /\ keyboard_listener' = FALSE
    /\ pc' = "report"
    /\ UNCHANGED <<STOP_FLAG, book, at_end, files, writes, page_num,
                   no_change_count, last_page_image, book_page,
                   captured_pages, outcome, exit_status, loop_end, grabs,
                   advances>>

\* main_report that never looks at STOP_FLAG
main_report_ignores_stop ==
    /\ UNCHANGED notSession
    /\ UNCHANGED <<tick_log, stop_mark>>
    /\ pc = "report"
    /\ outcome' = "completed"
    /\ exit_status' = 0
    /\ pc' = "exited"
    /\ UNCHANGED <<STOP_FLAG, keyboard_listener, book, at_end, files,
                   writes, page_num, no_change_count, last_page_image,
                   book_page, captured_pages, loop_end, grabs, advances>>

\* the final banner and sys.exit
main_report ==
    /\ UNCHANGED notSession
    /\ UNCHANGED <<tick_log, stop_mark>>
    /\ pc = "report"
    /\ IF STOP_FLAG
       THEN outcome' = "aborted" /\ exit_status' = 1
       ELSE outcome' = "completed" /\ exit_status' = 0
    /\ pc' = "exited"
    /\ UNCHANGED <<STOP_FLAG, keyboard_listener, book, at_end, files,
                   writes, page_num, no_change_count, last_page_image,
                   book_page, captured_pages, loop_end, grabs, advances>>

Next ==
    \/ on_key_press
    \/ signal_handler
    \/ main_prepare_ok
    \/ main_prepare_failed
    \/ clear_output_folder
    \/ loop_head
    \/ grab_frame
    \/ grab_lost
    \/ compare_and_save
    \/ click_next_page
    \/ main_finally
    \/ main_report

Spec == Init /\ [][Next]_vars

-----------------------------------------------------------------------------
(* calibrate_book_region *)

ScreenWidth == 1000          \* size of the screenshots
ScreenHeight == 600
MaxPagesToSearch == 5        \* largest max_pages_to_search tried

consecutive_matches_needed == 3
tolerance == 20
padding == 20

Min(a, b) == IF a < b THEN a ELSE b
Max(a, b) == IF a > b THEN a ELSE b

RECURSIVE SeqMax(_)
SeqMax(q) == IF Len(q) = 1 THEN q[1] ELSE Max(q[1], SeqMax(Tail(q)))

RECURSIVE SeqMin(_)
SeqMin(q) == IF Len(q) = 1 THEN q[1] ELSE Min(q[1], SeqMin(Tail(q)))

\* LastEdges with a window one observation too short
LastEdges_short_window(q) ==
    SubSeq(q, Len(q) - consecutive_matches_needed + 2, Len(q))

\* recent_right_edges[-consecutive_matches_needed:]
LastEdges(q) == SubSeq(q, Len(q) - consecutive_matches_needed + 1, Len(q))

\* right edges find_text_bounds reports: a narrow front-matter page, body
\* pages within the tolerance of each other, a page reaching the screen edge
RightEdges == {300, 700, 701, 702, 703, 990}

\* <<left, top, right, bottom>> as returned by find_text_bounds
TextBounds == { <<40, 30, r, 560>> : r \in RightEdges } \cup
              { <<10, 5, r, 590>> : r \in {300, 990} }

\* edges found by the variance scans of detect_book_region_from_title_page
TitleEdges == { <<100, 40, 900, 560>>, <<450, 40, 600, 560>>,
                <<100, 250, 900, 400>>, <<0, 0, ScreenWidth, ScreenHeight>> }

\* the size check and the centred fallback region (width/height of the
\* screenshot are ScreenWidth/ScreenHeight)
detect_book_region_from_title_page(e) ==
    LET left == e[1]  top == e[2]  right == e[3]  bottom == e[4]
        book_width == right - left
        book_height == bottom - top
        content_width == (55 * ScreenWidth) \div 100
        fb_left == (ScreenWidth - content_width) \div 2
    IN  IF 10 * book_width > 2 * ScreenWidth /\ 10 * book_height > 3 * ScreenHeight
        THEN <<left, top, right, bottom>>
        ELSE <<fb_left, (5 * ScreenHeight) \div 100,
               fb_left + content_width, (85 * ScreenHeight) \div 100>>

\* book_region of prepare_kindle_for_capture: the left and right bounds of
\* the title region over the full screen height
prepare_book_region(title_region) ==
    <<title_region[1], 0, title_region[3], ScreenHeight>>

\* main inside prepare_kindle_for_capture, capture_pages not yet entered
SessionIdle ==
    /\ pc = "prepare"
    /\ keyboard_listener = FALSE
    /\ book = <<>>
    /\ at_end = FALSE
    /\ files = <<>>
    /\ writes = <<>>
    /\ page_num = 1
    /\ no_change_count = 0
    /\ last_page_image = None
    /\ book_page = None
    /\ captured_pages = 0
    /\ outcome = "none"
    /\ exit_status = -1
    /\ loop_end = "none"
    /\ grabs = 0
    /\ advances = 0
    /\ tick_log = <<>>
    /\ stop_mark = None

InitCal ==
    /\ SessionIdle
    /\ NavIdle
    /\ PageIdle
    /\ RunIdle
    /\ SimIdle
    /\ FindIdle
    /\ WaitIdle
    /\ STOP_FLAG = FALSE
    /\ cal_pc = "start"
    /\ max_pages_to_search \in 0..MaxPagesToSearch
    /\ loop_i = 0
    /\ min_left = 99999
    /\ min_top = 99999
    /\ max_bottom = 0
    /\ pages_navigated = 0
    /\ recent_right_edges = <<>>
    /\ found_stable_right = FALSE
    /\ stable_right_edge = 0
    /\ full_width_count = 0
    /\ right_source = "none"
    /\ cal_region = None
    /\ cal_result = "none"
    /\ next_clicks = 0
    /\ prev_clicks = 0
    /\ title_edges = None

\* `return None` / sys.exit(1) out of calibrate_book_region
cal_leave(how) ==
    /\ cal_pc' = "returned"
    /\ cal_result' = how
    /\ UNCHANGED <<max_pages_to_search, loop_i, min_left, min_top, max_bottom,
                   pages_navigated, recent_right_edges, found_stable_right,
                   stable_right_edge, full_width_count, right_source,
                   cal_region, next_clicks, prev_clicks, title_edges>>

\* first screenshot, then direct detection unless margin and book have the
\* same colour
cal_start ==
    /\ cal_pc = "start"
    /\ \/ cal_leave("failed")                      \* screenshot is None
       \/ \E e \in TitleEdges :                    \* colours differ
            /\ title_edges' = e
            /\ cal_region' = detect_book_region_from_title_page(e)
            /\ cal_result' = "direct"
            /\ cal_pc' = "returned"
            /\ UNCHANGED <<max_pages_to_search, loop_i, min_left, min_top,
                           max_bottom, pages_navigated, recent_right_edges,
                           found_stable_right, stable_right_edge,
                           full_width_count, right_source, next_clicks,
                           prev_clicks>>
       \/ /\ cal_pc' = IF max_pages_to_search = 0 THEN "finish" ELSE "search"
          /\ UNCHANGED <<max_pages_to_search, loop_i, min_left, min_top,
                         max_bottom, pages_navigated, recent_right_edges,
                         found_stable_right, stable_right_edge,
                         full_width_count, right_source, cal_region,
                         cal_result, next_clicks, prev_clicks, title_edges>>
    /\ UNCHANGED notCal

\* cal_iteration going on to the next page after a stable window
cal_iteration_no_break ==
    /\ cal_pc = "search"
    /\ loop_i < max_pages_to_search
    /\ IF STOP_FLAG
       THEN cal_leave("stopped")                   \* check_stop_and_exit
       ELSE \/ cal_leave("failed")                 \* screenshot is None
            \/ \E b \in TextBounds :
                 LET right == b[3]
                     edges == Append(recent_right_edges, right)
                     stable ==
                        /\ Len(edges) >= consecutive_matches_needed
                        /\ SeqMax(LastEdges(edges)) - SeqMin(LastEdges(edges))
                              <= tolerance
                 IN  /\ min_left' = Min(min_left, b[1])
                     /\ min_top' = Min(min_top, b[2])
                     /\ max_bottom' = Max(max_bottom, b[4])
                     /\ recent_right_edges' = edges
                     /\ full_width_count' =
                            IF 10 * right >= 9 * ScreenWidth
                            THEN full_width_count + 1 ELSE full_width_count
                     /\ pages_navigated' = loop_i + 1
                     /\ IF stable
                        THEN /\ stable_right_edge' = SeqMax(LastEdges(edges))
                             /\ found_stable_right' = TRUE
                             /\ next_clicks' = next_clicks + 1
                             /\ loop_i' = loop_i + 1
                             /\ cal_pc' = IF loop_i + 1 < max_pages_to_search
                                          THEN "search" ELSE "finish"
                        ELSE /\ next_clicks' = next_clicks + 1   \* click_next_page
                             /\ loop_i' = loop_i + 1
                             /\ cal_pc' = IF loop_i + 1 < max_pages_to_search
                                          THEN "search" ELSE "finish"
                             /\ UNCHANGED <<stable_right_edge, found_stable_right>>
                     /\ UNCHANGED <<max_pages_to_search, right_source,
                                    cal_region, cal_result, prev_clicks,
                                    title_edges>>
    /\ UNCHANGED notCal

\* one iteration of `for i in range(max_pages_to_search)`
cal_iteration ==
    /\ cal_pc = "search"
    /\ loop_i < max_pages_to_search
    /\ IF STOP_FLAG
       THEN cal_leave("stopped")                   \* check_stop_and_exit
       ELSE \/ cal_leave("failed")                 \* screenshot is None
            \/ \E b \in TextBounds :
                 LET right == b[3]
                     edges == Append(recent_right_edges, right)
                     stable ==
                        /\ Len(edges) >= consecutive_matches_needed
                        /\ SeqMax(LastEdges(edges)) - SeqMin(LastEdges(edges))
                              <= tolerance
                 IN  /\ min_left' = Min(min_left, b[1])
                     /\ min_top' = Min(min_top, b[2])
                     /\ max_bottom' = Max(max_bottom, b[4])
                     /\ recent_right_edges' = edges
                     /\ full_width_count' =
                            IF 10 * right >= 9 * ScreenWidth
                            THEN full_width_count + 1 ELSE full_width_count
                     /\ pages_navigated' = loop_i + 1
                     /\ IF stable
                        THEN /\ stable_right_edge' = SeqMax(LastEdges(edges))
                             /\ found_stable_right' = TRUE
                             /\ cal_pc' = "finish"               \* break
                             /\ UNCHANGED <<next_clicks, loop_i>>
                        ELSE /\ next_clicks' = next_clicks + 1   \* click_next_page
                             /\ loop_i' = loop_i + 1
                             /\ cal_pc' = IF loop_i + 1 < max_pages_to_search
                                          THEN "search" ELSE "finish"
                             /\ UNCHANGED <<stable_right_edge, found_stable_right>>
                     /\ UNCHANGED <<max_pages_to_search, right_source,
                                    cal_region, cal_result, prev_clicks,
                                    title_edges>>
    /\ UNCHANGED notCal

\* FallbackRightEdge that prefers the maximum right edge to the full width
FallbackRightEdge_max_first ==
    IF recent_right_edges # <<>>
    THEN <<SeqMax(recent_right_edges), "max">>
    ELSE IF 10 * full_width_count >= 7 * pages_navigated
         THEN <<ScreenWidth, "full">>
         ELSE <<(6 * ScreenWidth) \div 10, "guess">>

\* FallbackRightEdge asking for more than 70% of full-width pages
FallbackRightEdge_strict ==
    IF 10 * full_width_count > 7 * pages_navigated
    THEN <<ScreenWidth, "full">>
    ELSE IF recent_right_edges # <<>>
         THEN <<SeqMax(recent_right_edges), "max">>
         ELSE <<(6 * ScreenWidth) \div 10, "guess">>

\* the right edge used when the search found no stable one
FallbackRightEdge ==
    IF 10 * full_width_count >= 7 * pages_navigated
    THEN <<ScreenWidth, "full">>
    ELSE IF recent_right_edges # <<>>
         THEN <<SeqMax(recent_right_edges), "max">>
         ELSE <<(6 * ScreenWidth) \div 10, "guess">>

\* after the loop: fallback right edge, final screenshot, padded and clamped
\* region, navigation back by pages_navigated pages
cal_finish ==
    /\ cal_pc = "finish"
    /\ LET chosen == IF found_stable_right
                     THEN <<stable_right_edge, "stable">>
                     ELSE FallbackRightEdge
       IN  /\ stable_right_edge' = chosen[1]
           /\ right_source' = chosen[2]
           /\ \/ /\ cal_region' = None             \* final screenshot is None
                 /\ cal_result' = "failed"
                 /\ UNCHANGED prev_clicks
              \/ /\ cal_region' = << Max(0, min_left - padding),
                                     Max(0, min_top - padding),
                                     Min(ScreenWidth, chosen[1] + padding),
                                     Min(ScreenHeight, max_bottom + padding) >>
                 /\ prev_clicks' = prev_clicks + pages_navigated
                 /\ cal_result' = "search"
    /\ cal_pc' = "returned"
    /\ UNCHANGED <<max_pages_to_search, loop_i, min_left, min_top, max_bottom,
                   pages_navigated, recent_right_edges, found_stable_right,
                   full_width_count, next_clicks, title_edges>>
    /\ UNCHANGED notCal

NextCal ==
    \/ cal_start
    \/ cal_iteration
    \/ cal_finish
    \/ signal_handler

SpecCal == InitCal /\ [][NextCal]_vars

-----------------------------------------------------------------------------
(* detect_arrow_positions / find_arrow_button *)

NavScreenWidth == 45         \* pyautogui.size(), also the screenshot size
NavScreenHeight == 5

\* search strip of find_arrow_button: columns and rows (0-based, end
\* exclusive) of the screenshot
SearchLeft(side) ==
    IF side = "right" THEN (80 * NavScreenWidth) \div 100 ELSE 5
SearchRight(side) ==
    IF side = "right" THEN NavScreenWidth - 5 ELSE (20 * NavScreenWidth) \div 100
SearchTop == (20 * NavScreenHeight) \div 100
SearchBottom == (80 * NavScreenHeight) \div 100

StripCols == SearchRight("right") - SearchLeft("right")
StripRows == SearchBottom - SearchTop

\* grey rows of the strip: blank margin, an edge of the glyph at one of the
\* columns, a stronger edge, an isolated line
PixelRows == { <<0, 0, 0, 0>>, <<0, 1, 1, 1>>, <<0, 0, 1, 1>>,
               <<0, 0, 0, 1>>, <<0, 2, 2, 2>>, <<0, 1, 0, 1>> }

\* search_region: StripRows rows of StripCols grey values
Strips == [1..StripRows -> PixelRows]

RECURSIVE SumTo(_, _)
SumTo(f, n) == IF n = 0 THEN 0 ELSE f[n] + SumTo(f, n - 1)

\* gradient = |diff(search_region, axis=1)|: one column less than the strip
Gradient(strip) ==
    [r \in 1..StripRows |->
        [c \in 1..(StripCols - 1) |-> Abs(strip[r][c + 1] - strip[r][c])]]

\* col_gradient_sum = sum(gradient, axis=0)
ColGradientSum(g) ==
    [c \in 1..(StripCols - 1) |-> SumTo([r \in 1..StripRows |-> g[r][c]], StripRows)]

\* np.argmax: the first column holding the maximum
ArgMax(f, n) ==
    CHOOSE c \in 1..n :
        /\ \A d \in 1..n : f[d] <= f[c]
        /\ \A d \in 1..(c - 1) : f[d] < f[c]

\* find_arrow_button on the strip of the given side: None or <<abs_x, abs_y>>
find_arrow_button(strip, side) ==
    LET g == Gradient(strip)
        ncols == StripCols - 1
        sums == ColGradientSum(g)
    IN  IF ncols = 0 THEN None
        ELSE LET max_gradient_col == ArgMax(sums, ncols)
                 max_gradient_value == sums[max_gradient_col]
                 total == SumTo(sums, ncols)
             IN  \* max_gradient_value < mean_gradient * 2
                 IF max_gradient_value * ncols < 2 * total THEN None
                 ELSE LET \* rows r with col_gradients[r] > mean(col_gradients) * 2
                          gradient_indices ==
                              { r \in 1..StripRows :
                                  g[r][max_gradient_col] * StripRows
                                      > 2 * max_gradient_value }
                      IN  IF gradient_indices = {} THEN None
                          ELSE LET n == Cardinality(gradient_indices)
                                   idx == [r \in 1..StripRows |->
                                             IF r \in gradient_indices
                                             THEN r - 1 ELSE 0]
                                   center_y_local == SumTo(idx, StripRows) \div n
                               IN  << SearchLeft(side) + (max_gradient_col - 1),
                                      SearchTop + center_y_local >>

\* the peak column gradient sum of a strip against twice the mean
PeakClass(strip) ==
    LET sums == ColGradientSum(Gradient(strip))
        ncols == StripCols - 1
        peak == sums[ArgMax(sums, ncols)]
        total == SumTo(sums, ncols)
    IN  IF peak * ncols < 2 * total THEN "below"
        ELSE IF peak * ncols = 2 * total THEN "equal"
        ELSE "above"

\* hover points computed from the book region, or from the screen size
HoverPoint(region, side) ==
    IF region # None
    THEN LET book_left == region[1]  book_top == region[2]
             book_right == region[3] book_bottom == region[4]
         IN  IF side = "right"
             THEN << book_right + (NavScreenWidth - book_right) \div 2,
                     (book_top + book_bottom) \div 2 >>
             ELSE << book_left \div 2, (book_top + book_bottom) \div 2 >>
    ELSE IF side = "right"
         THEN << (95 * NavScreenWidth) \div 100, NavScreenHeight \div 2 >>
         ELSE << (5 * NavScreenWidth) \div 100, NavScreenHeight \div 2 >>

\* book regions passed by prepare_kindle_for_capture: full screen height
NavRegions == { None,
                <<10, 0, 30, NavScreenHeight>>,
                <<8, 0, 36, NavScreenHeight>>,
                <<2, 0, 43, NavScreenHeight>> }

InitNav ==
    /\ SessionIdle
    /\ CalIdle
    /\ PageIdle
    /\ RunIdle
    /\ SimIdle
    /\ FindIdle
    /\ WaitIdle
    /\ STOP_FLAG = FALSE
    /\ nav_pc = "right"
    /\ book_region \in NavRegions
    /\ ARROW_RIGHT_POS = None
    /\ ARROW_LEFT_POS = None
    /\ pointer = None
    /\ nav_log = <<>>
    /\ right_peak = "none"
    /\ left_peak = "none"

\* hover over the right margin, capture the screen, search the right strip
nav_right ==
    /\ nav_pc = "right"
    /\ \E strip \in Strips :
         LET hover == HoverPoint(book_region, "right")
             right_pos == find_arrow_button(strip, "right")
         IN  /\ pointer' = hover
             /\ nav_log' = nav_log \o <<"move_right", "grab_right">>
             /\ ARROW_RIGHT_POS' = IF right_pos # None THEN right_pos ELSE hover
             /\ right_peak' = PeakClass(strip)
    /\ nav_pc' = "left"
    /\ UNCHANGED <<book_region, ARROW_LEFT_POS, left_peak>>
    /\ UNCHANGED notNav

\* hover over the left margin, capture the screen, search the left strip
nav_left ==
    /\ nav_pc = "left"
    /\ \E strip \in Strips :
         LET hover == HoverPoint(book_region, "left")
             left_pos == find_arrow_button(strip, "left")
         IN  /\ pointer' = hover
             /\ nav_log' = nav_log \o <<"move_left", "grab_left">>
             /\ ARROW_LEFT_POS' = IF left_pos # None THEN left_pos ELSE hover
             /\ left_peak' = PeakClass(strip)
    /\ nav_pc' = "centre"
    /\ UNCHANGED <<book_region, ARROW_RIGHT_POS, right_peak>>
    /\ UNCHANGED notNav

\* nav_centre returning with the pointer left over the left margin
nav_centre_no_move ==
    /\ nav_pc = "centre"
    /\ nav_pc' = "returned"
    /\ UNCHANGED <<pointer, nav_log, book_region, ARROW_RIGHT_POS,
                   ARROW_LEFT_POS, right_peak, left_peak>>
    /\ UNCHANGED notNav

\* move the pointer to the screen centre and return
nav_centre ==
    /\ nav_pc = "centre"
    /\ pointer' = << NavScreenWidth \div 2, NavScreenHeight \div 2 >>
    /\ nav_log' = Append(nav_log, "move_centre")
    /\ nav_pc' = "returned"
    /\ UNCHANGED <<book_region, ARROW_RIGHT_POS, ARROW_LEFT_POS, right_peak,
                   left_peak>>
    /\ UNCHANGED notNav

NextNav ==
    \/ nav_right
    \/ nav_left
    \/ nav_centre

SpecNav == InitNav /\ [][NextNav]_vars

-----------------------------------------------------------------------------
(* create_markdown.py: ocr_image and analyze_page *)

MIN_TEXT_WORDS == 10

\* pixel rows, four grey values wide: white paper; ink on paper; a row of
\* variance exactly 100; a row of mean exactly 245 with variance 300
RowKinds == { <<255, 255, 255, 255>>, <<0, 200, 0, 200>>,
              <<100, 120, 100, 120>>, <<255, 255, 255, 215>> }

Band(row, n) == [i \in 1..n |-> row]

\* page images: two bands of rows at the top and a white rest of the page
Pages == { Band(r1, n1) \o Band(r2, n2) \o Band(<<255, 255, 255, 255>>, n3) :
             r1 \in RowKinds, n1 \in {6, 7},
             r2 \in {<<255, 255, 255, 255>>, <<0, 200, 0, 200>>},
             n2 \in {6, 7}, n3 \in {27, 28} }

\* a line as the OCR engine reports it: the number of non-blank words of the
\* line (all that is read of its text) and the box of its first word
EngineLines == { [words |-> w, y |-> b[1], height |-> b[2]] :
                   w \in {5, 10},
                   b \in { <<0, 7>>, <<6, 4>>, <<6, 6>>, <<13, 6>> } }
               \cup { [words |-> 0, y |-> 0, height |-> 6] }

MaxLines == 2                \* most lines the engine reports on a page

EngineResults == UNION { [1..n -> EngineLines] : n \in 0..MaxLines }

\* ocr_image_async without an exception: the lines with a non-empty text
ocr_image_async(lines) == SelectSeq(lines, LAMBDA l : l.words > 0)

\* np.var(row) > 100 and np.mean(row) < 245 on the grey values of a row
RowHasContent(row) ==
    LET n == Len(row)
        s == SumTo(row, n)
        sq == SumTo([i \in 1..n |-> row[i] * row[i]], n)
    IN  n * sq - s * s > 100 * n * n /\ s < 245 * n

\* k-th smallest element of a non-empty sequence
KthSmallest(q, k) ==
    CHOOSE v \in {q[i] : i \in 1..Len(q)} :
        /\ Cardinality({i \in 1..Len(q) : q[i] < v}) < k
        /\ Cardinality({i \in 1..Len(q) : q[i] <= v}) >= k

\* int(np.median(q)) of a non-empty sequence of integers
IntMedian(q) ==
    LET n == Len(q)
    IN  IF n % 2 = 1 THEN KthSmallest(q, (n + 1) \div 2)
        ELSE (KthSmallest(q, n \div 2) + KthSmallest(q, n \div 2 + 1)) \div 2

\* text_line_h: median of the line heights above 5, 30 without such a line
text_line_h(ocr_lines) ==
    LET tall == SelectSeq(ocr_lines, LAMBDA l : l.height > 5)
        line_heights == [i \in 1..Len(tall) |-> tall[i].height]
    IN  IF Len(tall) > 0 THEN IntMedian(line_heights) ELSE 30

\* text_row_mask[r] (r counted from 0): some line of height >= 5 spans row r
text_row_mask(height, ocr_lines, r) ==
    \E i \in 1..Len(ocr_lines) :
        /\ ~(ocr_lines[i].height < 5)
        /\ ocr_lines[i].y <= r
        /\ r < Min(height, ocr_lines[i].y + ocr_lines[i].height)

\* one iteration of `for g in gfx_rows`, on <<current, max_consecutive>>
run_step_no_reset(st, g) ==
    IF g THEN <<st[1] + 1, Max(st[2], st[1] + 1)>> ELSE st

run_step(st, g) ==
    IF g THEN <<st[1] + 1, Max(st[2], st[1] + 1)>> ELSE <<0, st[2]>>

RECURSIVE run_loop(_, _)
run_loop(rows, n) ==
    IF n = 0 THEN <<0, 0>> ELSE run_step(run_loop(rows, n - 1), rows[n])

\* max_consecutive after the loop over rows
max_consecutive_run(rows) == run_loop(rows, Len(rows))[2]

\* gfx_rows = content_rows & ~text_row_mask
GfxRows(gray, ocr_lines) ==
    [r \in 1..Len(gray) |->
        RowHasContent(gray[r]) /\ ~text_row_mask(Len(gray), ocr_lines, r - 1)]

WordCount(ocr_lines) ==
    SumTo([i \in 1..Len(ocr_lines) |-> ocr_lines[i].words], Len(ocr_lines))

\* text_coverage / height < 0.15, the ratio being 0 for an image without rows
text_coverage_ratio_low_inclusive(text_coverage, height) ==
    IF height > 0 THEN 100 * text_coverage <= 15 * height ELSE TRUE

text_coverage_ratio_low(text_coverage, height) ==
    IF height > 0 THEN 100 * text_coverage < 15 * height ELSE TRUE

\* has_graphics = max_consecutive > min_gfx_height
has_graphics(gray, ocr_lines) ==
    max_consecutive_run(GfxRows(gray, ocr_lines)) > text_line_h(ocr_lines) * 2

TextCoverage(ocr_lines) ==
    SumTo([i \in 1..Len(ocr_lines) |-> ocr_lines[i].height], Len(ocr_lines))

\* analyze_page without the word-count gate
analyze_page_no_word_gate(gray, ocr_lines) ==
    IF ~has_graphics(gray, ocr_lines) THEN "text"
    ELSE IF text_coverage_ratio_low(TextCoverage(ocr_lines), Len(gray))
         THEN "image"
         ELSE "mixed"

analyze_page(gray, ocr_lines) ==
    IF WordCount(ocr_lines) < MIN_TEXT_WORDS THEN "image"
    ELSE IF ~has_graphics(gray, ocr_lines) THEN "text"
    ELSE IF text_coverage_ratio_low(TextCoverage(ocr_lines), Len(gray))
         THEN "image"
         ELSE "mixed"

InitPage ==
    /\ SessionIdle
    /\ CalIdle
    /\ NavIdle
    /\ RunIdle
    /\ SimIdle
    /\ FindIdle
    /\ WaitIdle
    /\ STOP_FLAG = FALSE
    /\ page_pc = "ocr"
    /\ page_image \in Pages
    /\ engine_lines \in EngineResults
    /\ page_lines = <<>>
    /\ page_type = "none"
    /\ min_gfx_height = None

\* ocr_image: the recognized lines, or [] when the recognition raises
ocr_image ==
    /\ page_pc = "ocr"
    /\ \/ page_lines' = ocr_image_async(engine_lines)
       \/ page_lines' = <<>>
    /\ page_pc' = "analyze"
    /\ UNCHANGED <<page_image, engine_lines, page_type, min_gfx_height>>
    /\ UNCHANGED notPage

\* page_type = analyze_page(file, ocr_lines) in create_markdown
create_markdown_analyze ==
    /\ page_pc = "analyze"
    /\ page_type' = analyze_page(page_image, page_lines)
    /\ min_gfx_height' = IF WordCount(page_lines) < MIN_TEXT_WORDS THEN None
                         ELSE text_line_h(page_lines) * 2
    /\ page_pc' = "done"
    /\ UNCHANGED <<page_image, engine_lines, page_lines>>
    /\ UNCHANGED notPage

NextPage ==
    \/ ocr_image
    \/ create_markdown_analyze

SpecPage == InitPage /\ [][NextPage]_vars

-----------------------------------------------------------------------------
(* the max_consecutive loop of analyze_page and is_text_only_image *)

MaxRows == 6                 \* longest row sequence iterated over

RowSequences == UNION { [1..n -> BOOLEAN] : n \in 0..MaxRows }

InitRun ==
    /\ SessionIdle
    /\ CalIdle
    /\ NavIdle
    /\ PageIdle
    /\ SimIdle
    /\ FindIdle
    /\ WaitIdle
    /\ STOP_FLAG = FALSE
    /\ run_pc = "loop"
    /\ run_rows \in RowSequences
    /\ run_i = 0
    /\ current = 0
    /\ max_consecutive = 0

\* one iteration of `for g in gfx_rows` / `for c in content_rows`
run_iteration ==
    /\ run_pc = "loop"
    /\ run_i < Len(run_rows)
    /\ LET st == run_step(<<current, max_consecutive>>, run_rows[run_i + 1])
       IN  /\ current' = st[1]
           /\ max_consecutive' = st[2]
    /\ run_i' = run_i + 1
    /\ UNCHANGED <<run_pc, run_rows>>
    /\ UNCHANGED notRun

\* the sequence is exhausted
run_exit ==
    /\ run_pc = "loop"
    /\ run_i = Len(run_rows)
    /\ run_pc' = "done"
    /\ UNCHANGED <<run_rows, run_i, current, max_consecutive>>
    /\ UNCHANGED notRun

NextRun ==
    \/ run_iteration
    \/ run_exit

SpecRun == InitRun /\ [][NextRun]_vars

-----------------------------------------------------------------------------
(* images_are_similar on its own *)

\* image sizes <<width, height>>: the crop of a region with left = right,
\* one pixel, two pixels side by side, two pixels one above the other
SimSizes == { <<0, 2>>, <<1, 1>>, <<2, 1>>, <<1, 2>> }

SimPixels == {0, 2, 3, 255}

SimImages == UNION { { MkImage(sz[1], sz[2], px) :
                         px \in [1..(sz[1] * sz[2]) -> SimPixels] } :
                     sz \in SimSizes }

InitSim ==
    /\ SessionIdle
    /\ CalIdle
    /\ NavIdle
    /\ PageIdle
    /\ RunIdle
    /\ FindIdle
    /\ WaitIdle
    /\ STOP_FLAG = FALSE
    /\ sim_pc = "call"
    /\ sim_a \in SimImages \cup {None}
    /\ sim_b \in SimImages \cup {None}
    /\ sim_result = None

\* images_are_similar(img1, img2) is called and returns
sim_call ==
    /\ sim_pc = "call"
    /\ sim_result' = images_are_similar(sim_a, sim_b)
    /\ sim_pc' = "done"
    /\ UNCHANGED <<sim_a, sim_b>>
    /\ UNCHANGED notSim

NextSim == sim_call

SpecSim == InitSim /\ [][NextSim]_vars

-----------------------------------------------------------------------------
(* find_text_in_region *)

\* largest number of words the engine reports for one region
MaxWords == 2

\* the characters texts are made of; str.lower() on them
Chars == {"B", "b", "E", "e"}

LowerChar(c) ==
    CASE c = "B" -> "b"
      [] c = "E" -> "e"
      [] OTHER -> c

lower(text) == [k \in 1..Len(text) |-> LowerChar(text[k])]

\* Python's  sub in text
Contains(sub, text) ==
    \E k \in 0..(Len(text) - Len(sub)) : SubSeq(text, k + 1, k + Len(sub)) = sub

\* a word as ocr_image_async builds it from a bounding rect in the scaled image
MkWord(text, x, y, width, height) ==
    [text |-> text, y |-> y,
     center_x |-> x + width \div 2, center_y |-> y + height \div 2]

WordTexts == {<<"B">>, <<"e">>, <<"b", "e">>, <<"B", "e">>}

Words == {MkWord(t, x, y, 6, 3) : t \in WordTexts, x \in {0, 5}, y \in {0, 4}}

WordLists == UNION {[1..n -> Words] : n \in 0..MaxWords}

SearchTexts == {<<>>, <<"b">>, <<"B", "E">>, <<"e", "b">>}

RegionBoxes == {<<0, 0, 40, 20>>, <<10, 20, 50, 40>>}

ScaleFactors == {1, 2, 3}

\* [w for w in words if search_lower in w['text'].lower()]
RECURSIVE Matches(_, _)
Matches(words, search_lower) ==
    IF words = <<>> THEN <<>>
    ELSE LET rest == Matches(Tail(words), search_lower)
         IN IF Contains(search_lower, lower(Head(words).text))
            THEN <<Head(words)>> \o rest
            ELSE rest

\* insertion of w behind every element whose key is not larger
RECURSIVE InsertByY(_, _)
InsertByY(sorted, w) ==
    IF sorted = <<>> THEN <<w>>
    ELSE IF Head(sorted).y <= w.y
         THEN <<Head(sorted)>> \o InsertByY(Tail(sorted), w)
         ELSE <<w>> \o sorted

\* sorted(matches, key=lambda w: w['y']), which is stable
RECURSIVE SortedByY(_)
SortedByY(matches) ==
    IF matches = <<>> THEN <<>>
    ELSE InsertByY(SortedByY(SubSeq(matches, 1, Len(matches) - 1)),
                   matches[Len(matches)])

\* find_text_in_region taking the topmost match whatever take_topmost says
find_text_in_region_always_topmost(words, bbox, text, topmost, scale) ==
    LET matches == Matches(words, lower(text))
        matches_sorted == SortedByY(matches)
        best_match == matches_sorted[1]
    IN IF matches = <<>> THEN None
       ELSE <<bbox[1] + best_match.center_x \div scale,
              bbox[2] + best_match.center_y \div scale,
              best_match>>

find_text_in_region(words, bbox, text, topmost, scale) ==
    LET matches == Matches(words, lower(text))
        matches_sorted == SortedByY(matches)
        best_match == IF topmost THEN matches_sorted[1]
                      ELSE matches_sorted[Len(matches_sorted)]
    IN IF matches = <<>> THEN None
       ELSE <<bbox[1] + best_match.center_x \div scale,
              bbox[2] + best_match.center_y \div scale,
              best_match>>

InitFind ==
    /\ SessionIdle
    /\ CalIdle
    /\ NavIdle
    /\ PageIdle
    /\ RunIdle
    /\ SimIdle
    /\ WaitIdle
    /\ STOP_FLAG = FALSE
    /\ find_pc = "call"
    /\ find_words \in WordLists
    /\ region_bbox \in RegionBoxes
    /\ search_text \in SearchTexts
    /\ take_topmost \in BOOLEAN
    /\ scale_factor \in ScaleFactors
    /\ find_result = None

find_call ==
    /\ find_pc = "call"
    /\ find_result' = find_text_in_region(find_words, region_bbox, search_text,
                                          take_topmost, scale_factor)
    /\ find_pc' = "done"
    /\ UNCHANGED <<find_words, region_bbox, search_text, take_topmost,
                   scale_factor>>
    /\ UNCHANGED notFind

NextFind == find_call

SpecFind == InitFind /\ [][NextFind]_vars

-----------------------------------------------------------------------------
(* wait_for_fullscreen_message_to_disappear *)

\* int(max_wait / check_interval) with max_wait = 10 and check_interval = 0.5
WaitPolls == 20

Beenden == <<"B", "e", "e", "n", "d", "e", "n">>

\* the rectangle around the screen centre where the banner appears
center_region ==
    <<ScreenWidth \div 2 - 200, ScreenHeight \div 2 - 50,
      ScreenWidth \div 2 + 200, ScreenHeight \div 2 + 50>>

\* what the engine may read there: nothing, other text, the banner
WaitScreens ==
    {<<>>,
     <<MkWord(<<"e", "n">>, 40, 20, 30, 16)>>,
     <<MkWord(<<"F", "1", "1">>, 40, 20, 30, 16),
       MkWord(Beenden, 200, 20, 120, 16)>>,
     <<MkWord(<<"b", "e", "e", "n", "d", "e", "n", ".">>, 200, 60, 120, 16)>>}

InitWait ==
    /\ SessionIdle
    /\ CalIdle
    /\ NavIdle
    /\ PageIdle
    /\ RunIdle
    /\ SimIdle
    /\ FindIdle
    /\ STOP_FLAG \in BOOLEAN
    /\ wait_pc = "start"
    /\ wait_i = 0
    /\ wait_checks = 0
    /\ wait_polls = 0
    /\ wait_found = FALSE
    /\ wait_result = None

\* get_ocr_engine: without an engine sleep five seconds and return
wait_start ==
    /\ wait_pc = "start"
    /\ \E engine \in BOOLEAN :
         IF engine
         THEN /\ wait_pc' = "check"
              /\ UNCHANGED wait_result
         ELSE /\ wait_pc' = "returned"
              /\ wait_result' = TRUE
    /\ UNCHANGED <<wait_i, wait_checks, wait_polls, wait_found>>
    /\ UNCHANGED STOP_FLAG
    /\ UNCHANGED notWait

\* check_stop_and_exit at the top of the loop body
wait_check ==
    /\ wait_pc = "check"
    /\ wait_checks' = wait_checks + 1
    /\ wait_pc' = IF STOP_FLAG THEN "exited" ELSE "poll"
    /\ UNCHANGED <<wait_i, wait_polls, wait_found, wait_result>>
    /\ UNCHANGED STOP_FLAG
    /\ UNCHANGED notWait

\* wait_poll that keeps polling after the banner has gone
wait_poll_no_early_return ==
    /\ wait_pc = "poll"
    /\ \E words \in WaitScreens :
         LET result == find_text_in_region(words, center_region, Beenden,
                                           TRUE, 2)
         IN /\ wait_polls' = wait_polls + 1
            /\ wait_found' = (result # None)
            /\ wait_i' = wait_i + 1
            /\ IF wait_i + 1 < WaitPolls
               THEN /\ wait_pc' = "check"
                    /\ UNCHANGED wait_result
               ELSE /\ wait_pc' = "returned"
                    /\ wait_result' = TRUE
    /\ UNCHANGED wait_checks
    /\ UNCHANGED STOP_FLAG
    /\ UNCHANGED notWait

\* one OCR poll of the centre region, then return or sleep and loop
wait_poll ==
    /\ wait_pc = "poll"
    /\ \E words \in WaitScreens :
         LET result == find_text_in_region(words, center_region, Beenden,
                                           TRUE, 2)
         IN /\ wait_polls' = wait_polls + 1
            /\ wait_found' = (result # None)
            /\ IF result = None
               THEN /\ wait_pc' = "returned"
                    /\ wait_result' = TRUE
                    /\ UNCHANGED wait_i
               ELSE /\ wait_i' = wait_i + 1
                    /\ IF wait_i + 1 < WaitPolls
                       THEN /\ wait_pc' = "check"
                            /\ UNCHANGED wait_result
                       ELSE /\ wait_pc' = "returned"
                            /\ wait_result' = TRUE
    /\ UNCHANGED wait_checks
    /\ UNCHANGED STOP_FLAG
    /\ UNCHANGED notWait

NextWait == wait_start \/ wait_check \/ wait_poll \/ signal_handler

SpecWait == InitWait /\ [][NextWait]_vars

-----------------------------------------------------------------------------
(* Properties of the page classifier *)

RECURSIVE TotalWords(_)
TotalWords(lines) ==
    IF lines = <<>> THEN 0 ELSE Head(lines).words + TotalWords(Tail(lines))

\* the rows r (from 1) of a page that have content and lie in no
\* recognized line's vertical span [y, y + height)
CandidateRows(page, lines) ==
    { r \in 1..Len(page) :
        /\ RowHasContent(page[r])
        /\ \A i \in 1..Len(lines) :
              ~(lines[i].y <= r - 1 /\ r - 1 < lines[i].y + lines[i].height) }

\* length of the longest run of consecutive numbers in a set of rows
LongestRunIn(rows) ==
    LET runs == { n \in 0..Cardinality(rows) :
                    n = 0 \/ \E a \in rows : \A k \in 0..(n - 1) : a + k \in rows }
    IN  CHOOSE n \in runs : \A m \in runs : m <= n

\* C11: a page whose recognized lines hold fewer than 10 words in total (no
\* word at all and the empty result of a failed OCR included) is classified
\* 'image', whatever its pixels and its content runs.
C11_WordCountGate ==
    (page_pc = "done" /\ TotalWords(page_lines) < 10) => page_type = "image"

\* the OCR failed on a page with 13 rows of ink on which the engine would
\* have recognized 10 words or more
C11_Witness ==
    /\ page_pc = "done"
    /\ page_lines = <<>>
    /\ TotalWords(engine_lines) >= 10
    /\ LongestRunIn(CandidateRows(page_image, <<>>)) = 13
    /\ page_type = "image"

\* C12: a page with at least 10 recognized words whose longest run of
\* consecutive rows that have content and lie in no recognized line's
\* vertical span is at most the graphics minimum height (twice the text-line
\* height) is classified 'text'.
C12_RowRunGate ==
    ( /\ page_pc = "done"
      /\ TotalWords(page_lines) >= 10
      /\ LongestRunIn(CandidateRows(page_image, page_lines))
            <= 2 * text_line_h(page_lines) )
    => page_type = "text"

\* sum of the heights of the recognized lines
RECURSIVE LineHeights(_)
LineHeights(lines) ==
    IF lines = <<>> THEN 0 ELSE Head(lines).height + LineHeights(Tail(lines))

\* a classified page with 10 words or more whose longest run of rows with
\* content outside every line's span exceeds the graphics minimum height
C13_Graphics ==
    /\ page_pc = "done"
    /\ TotalWords(page_lines) >= 10
    /\ LongestRunIn(CandidateRows(page_image, page_lines))
          > 2 * text_line_h(page_lines)

\* C13: such a page is classified 'image' when (sum of the line heights) /
\* (page height) < 0.15 and 'mixed' otherwise; every classification is one
\* of text, image, mixed.
C13_CoverageGate ==
    /\ page_pc = "done" => page_type \in {"text", "image", "mixed"}
    /\ C13_Graphics =>
          page_type = IF 100 * LineHeights(page_lines) < 15 * Len(page_image)
                      THEN "image" ELSE "mixed"

\* a page of 41 rows with one line of height 6: 6 / 41 < 0.15
C13_Witness ==
    /\ C13_Graphics
    /\ Len(page_image) = 41
    /\ LineHeights(page_lines) = 6
    /\ page_type = "image"

\* the same line on a page of 40 rows: 6 / 40 = 0.15
C13_WitnessMixed ==
    /\ C13_Graphics
    /\ Len(page_image) = 40
    /\ LineHeights(page_lines) = 6
    /\ page_type = "mixed"

\* twice the median of a non-empty sequence of heights
TwiceMedian(q) ==
    LET n == Len(q)
    IN  IF n % 2 = 1 THEN 2 * KthSmallest(q, (n + 1) \div 2)
        ELSE KthSmallest(q, n \div 2) + KthSmallest(q, n \div 2 + 1)

AllLineHeights == [i \in 1..Len(page_lines) |-> page_lines[i].height]

\* C26: on a classified page with 10 words or more the graphics minimum
\* height is twice the median of the heights of all recognized lines, and
\* twice 30 only when no line was recognized.
C26_MinGfxHeight ==
    (page_pc = "done" /\ TotalWords(page_lines) >= 10) =>
        min_gfx_height = IF page_lines = <<>> THEN 2 * 30
                         ELSE TwiceMedian(AllLineHeights)

-----------------------------------------------------------------------------
(* Properties of images_are_similar *)

\* C14: images_are_similar(a, a) is True for every image a, and
\* images_are_similar(a, b) is False whenever the sizes of a and b differ.
C14_ReflexiveAndSizeStrict ==
    (sim_pc = "done" /\ sim_a # None /\ sim_b # None) =>
        /\ sim_a = sim_b => sim_result = TRUE
        /\ <<sim_a.w, sim_a.h>> # <<sim_b.w, sim_b.h>> => sim_result = FALSE

-----------------------------------------------------------------------------
(* Properties of the longest-run loop *)

\* C15: after the loop over a row sequence of length N, max_consecutive is
\* the length of the longest run of consecutive True rows: 0 when every row
\* is False, N when every row is True.
C15_LongestRun ==
    run_pc = "done" =>
        LET N == Len(run_rows)
            trues == { i \in 1..N : run_rows[i] }
        IN  /\ max_consecutive = LongestRunIn(trues)
            /\ trues = {} => max_consecutive = 0
            /\ trues = 1..N => max_consecutive = N

\* two runs of True, the longer one first, then a False row
C15_Witness ==
    /\ run_pc = "done"
    /\ run_rows = <<TRUE, TRUE, FALSE, TRUE, FALSE>>
    /\ max_consecutive = 2

-----------------------------------------------------------------------------
(* Properties of the capture session *)

PairwiseNonSimilar(b) ==
    \A i, j \in 1..Len(b) : i # j => ~images_are_similar(b[i], b[j])

\* capture_pages was entered and has been left
Returned == loop_end # "none"

\* C1: when the frames are n pairwise non-similar pages followed by at_end
\* of page n, the loop ends by idle detection only after n + 3 frames (the
\* 3rd repeat of page n) and has then saved exactly the pages 1..n.
C1_EndOfDocument ==
    (PairwiseNonSimilar(book) /\ loop_end = "idle") =>
        /\ grabs = Len(book) + MAX_NO_CHANGE_COUNT
        /\ Len(writes) = Len(book)
        /\ DOMAIN files = 1..Len(book)
        /\ \A i \in 1..Len(book) : files[i] = book[i]

C1_Witness ==
    /\ pc = "exited"
    /\ loop_end = "idle"
    /\ Len(book) = MaxBook
    /\ PairwiseNonSimilar(book)
    /\ at_end
    /\ grabs = MaxBook + 3

\* C2: while capture_pages runs and after it returned, the saved indices are
\* exactly 1..page_num-1, written once each in increasing order, and the
\* value it returns is page_num - 1.
C2_ContiguousPages ==
    (pc \in {"loop", "grab", "compare", "click"} \/ Returned) =>
        /\ Len(writes) = page_num - 1
        /\ \A i \in 1..Len(writes) : writes[i] = i
        /\ DOMAIN files = 1..(page_num - 1)
        /\ (loop_end \in {"idle", "lost"} => captured_pages = page_num - 1)

\* similar and different ticks interleaved: 3 pages saved in more than
\* 3 + 3 frames
C2_Witness ==
    /\ loop_end = "idle"
    /\ page_num = 4
    /\ grabs > 6
    /\ captured_pages = 3

\* C3: a session stopped by the stop flag after k saved pages reports k
\* captured pages and has exactly the files 1..k.
C3_PartialResult ==
    (Returned /\ loop_end = "stop") =>
        /\ captured_pages = Len(writes)
        /\ DOMAIN files = 1..Len(writes)

\* C4: a tick that begins with STOP_FLAG set leaves the loop without a frame
\* capture, a save or an advance; saved pages stay as they are once the loop
\* was stopped; STOP_FLAG is never cleared.
C4_StopAtTickStart ==
    [][ /\ (pc = "loop" /\ STOP_FLAG /\ no_change_count < MAX_NO_CHANGE_COUNT) =>
            /\ pc' \in {"loop", "finally"}
            /\ grabs' = grabs
            /\ advances' = advances
            /\ files' = files
            /\ writes' = writes
        /\ (loop_end = "stop" => files' = files /\ writes' = writes)
        /\ (STOP_FLAG => STOP_FLAG') ]_vars

C4_Witness ==
    /\ pc = "exited"
    /\ loop_end = "stop"
    /\ STOP_FLAG
    /\ DOMAIN files = 1..2

\* C5: a session whose loop was aborted by the stop flag ends "aborted" with
\* exit status 1; one whose loop ended by idle detection with the stop flag
\* never raised ends "completed" with exit status 0.
C5_OutcomeDistinguished ==
    pc = "exited" =>
        /\ (loop_end = "stop" => outcome = "aborted" /\ exit_status = 1)
        /\ (loop_end = "idle" /\ ~STOP_FLAG =>
                outcome = "completed" /\ exit_status = 0)

C5_Witness ==
    /\ pc = "exited"
    /\ loop_end = "stop"
    /\ outcome = "aborted"
    /\ page_num > 1

\* C6: a session whose loop ended because the frame capture returned None
\* does not end with the outcome of a normal completion.
C6_LostFrameSurfaced ==
    (pc = "exited" /\ loop_end = "lost") =>
        (outcome # "completed" /\ exit_status # 0)

\* C7: after the frame capture returned None, capture_pages captures no
\* further frame, saves no page and issues no advance; the saved pages stay.
C7_NoRetry ==
    [][ loop_end = "lost" =>
            /\ grabs' = grabs
            /\ advances' = advances
            /\ files' = files
            /\ writes' = writes ]_vars

C7_Witness ==
    /\ pc = "exited"
    /\ loop_end = "lost"
    /\ DOMAIN files = 1..2
    /\ advances = 2

\* number of "similar" entries at the end of a tick history
RECURSIVE TrailingSimilar(_)
TrailingSimilar(log) ==
    IF log = <<>> \/ log[Len(log)] # "similar" THEN 0
    ELSE 1 + TrailingSimilar(SubSeq(log, 1, Len(log) - 1))

\* C18: no_change_count is the number of most recent consecutive ticks
\* whose crop was similar to the last saved crop, it lies in 0..3 (a
\* different tick resets it to 0), no tick starts once it is 3, and
\* capture_pages has ended by idle detection exactly when it is 3.
C18_IdleCounter ==
    /\ no_change_count \in 0..3
    /\ no_change_count = TrailingSimilar(tick_log)
    /\ no_change_count = 3 => pc \notin {"grab", "compare"}
    /\ loop_end = "idle" => no_change_count = 3
    /\ (Returned /\ no_change_count = 3) => loop_end = "idle"

\* 2 similar ticks, 1 different tick, 2 similar ticks: the loop goes on
C18_Witness ==
    /\ tick_log = <<"different", "similar", "similar", "different",
                    "similar", "similar">>
    /\ no_change_count = 2
    /\ pc = "grab"
    /\ loop_end = "none"

\* ticks of capture_pages that obtained a frame
ValidFrames == grabs - (IF loop_end = "lost" THEN 1 ELSE 0)

\* C19: every tick that obtains a frame issues exactly one advance, after
\* its compare/persist step, whether the crop was similar or different and
\* also on the tick that brings the counter to the threshold: between ticks
\* and after the loop the number of advances is the number of ticks with a
\* frame, and inside a tick the advance is the one step still missing.
C19_OneAdvancePerFrame ==
    /\ Len(tick_log) = IF pc = "compare" THEN ValidFrames - 1 ELSE ValidFrames
    /\ advances = IF pc \in {"compare", "click"}
                  THEN ValidFrames - 1 ELSE ValidFrames

\* the loop ended by idle detection after a different tick followed by
\* three similar ones: four frames, four advances
C19_Witness ==
    /\ loop_end = "idle"
    /\ tick_log = <<"different", "similar", "similar", "similar">>
    /\ grabs = 4
    /\ advances = 4

\* C20: a tick compares its crop with the last saved crop: when they are
\* similar the saved crop, the next page index and the saved pages stay as
\* they are; otherwise the crop is saved under the next page index and
\* becomes the saved crop. Nothing else replaces the saved crop during the
\* loop, which therefore is always the page saved last.
C20_CompareAgainstSaved ==
    /\ [] ( (pc \in {"loop", "grab", "compare", "click"} /\ page_num > 1)
              => last_page_image = files[page_num - 1] )
    /\ [][ /\ (pc = "compare" /\ pc' = "click") =>
                IF images_are_similar(book_page, last_page_image)
                THEN /\ tick_log' = Append(tick_log, "similar")
                     /\ UNCHANGED <<last_page_image, page_num, files, writes>>
                ELSE /\ tick_log' = Append(tick_log, "different")
                     /\ last_page_image' = book_page
                     /\ page_num' = page_num + 1
                     /\ DOMAIN files' = DOMAIN files \cup {page_num}
                     /\ files'[page_num] = book_page
            /\ (pc \in {"loop", "grab", "click"}) =>
                UNCHANGED <<last_page_image, page_num, files>> ]_vars

\* slow drift: the third page is similar to the second (a frame that was
\* captured, not saved) but not to the first (the saved crop), and is saved
C20_Witness ==
    /\ pc = "click"
    /\ tick_log = <<"different", "similar", "different">>
    /\ Len(book) = 3
    /\ images_are_similar(book[3], book[2])
    /\ ~images_are_similar(book[3], book[1])
    /\ last_page_image = book[3]
    /\ files = <<book[1], book[3]>>

\* the first tick with a frame saved it as page 1, and the idle counter is
\* zero until page 1 exists
PageOneFirst ==
    /\ tick_log # <<>> =>
          /\ tick_log[1] = "different"
          /\ writes # <<>> /\ writes[1] = 1
          /\ 1 \in DOMAIN files
    /\ no_change_count > 0 => 1 \in DOMAIN files

\* C27: the first tick that obtains a frame saves it as page 1 (nothing was
\* saved before, so the crop is not similar to anything); the idle counter
\* is not raised before page 1 exists; and a session that had a tick with a
\* frame ends with a count of captured pages of at least 1.
C27_FirstFramePersisted ==
    /\ PageOneFirst
    /\ (pc = "exited" /\ tick_log # <<>>) => captured_pages >= 1

\* C28: once STOP_FLAG is set no further tick starts and at most one more
\* page is saved, by the tick that was under way when the flag was set; a
\* loop ended by the stop check has completed every tick it started, the
\* one under way at the signal included: each compared its frame and issued
\* its advance.
C28_StopInsideTick ==
    /\ STOP_FLAG <=> stop_mark # None
    /\ STOP_FLAG =>
          /\ TicksStarted = stop_mark.ticks
          /\ Len(writes) <= stop_mark.writes + 1
          /\ Len(writes) > stop_mark.writes => grabs = stop_mark.ticks
    /\ loop_end = "stop" =>
          /\ STOP_FLAG
          /\ Len(tick_log) = grabs
          /\ advances = grabs
    /\ (STOP_FLAG /\ pc = "loop" /\ no_change_count < MAX_NO_CHANGE_COUNT) =>
          ENABLED (loop_head /\ loop_end' = "stop")

\* the flag was set after the second tick's stop check; that tick saved
\* page 2 and advanced, and the third stop check ended the loop
C28_Witness ==
    /\ pc = "exited"
    /\ loop_end = "stop"
    /\ stop_mark = [writes |-> 1, ticks |-> 2]
    /\ writes = <<1, 2>>
    /\ advances = 2

\* some page file of the output folder is gone after the step
FileDeleted == \E i \in DOMAIN files : i \notin DOMAIN files'

\* C29: page files are deleted only by the step that follows a successful
\* preparation, when no page of the session has been saved yet; no step
\* taken while preparing or after a failed preparation changes the output
\* folder; and a session whose preparation failed has run no tick.
C29_ClearAfterPrepare ==
    /\ [][ /\ FileDeleted =>
                /\ pc = "clear"
                /\ writes = <<>> /\ grabs = 0
                /\ files' = <<>>
           /\ (pc = "prepare" \/ outcome = "prep_failed") => files' = files
           /\ pc = "clear" => pc' \in {"clear", "loop"}
         ]_vars
    /\ [] ( outcome = "prep_failed" =>
              /\ pc = "exited"
              /\ grabs = 0 /\ advances = 0
              /\ writes = <<>> /\ tick_log = <<>>
              /\ loop_end = "none" )
    /\ [] ( writes # <<>> => DOMAIN files = 1..Len(writes) )

\* preparation failed and the page file of an earlier session is still there
C29_Witness ==
    /\ pc = "exited"
    /\ outcome = "prep_failed"
    /\ files \in StalePages
    /\ files # <<>>

\* preparation succeeded: the folder is empty when the first tick begins
C29_WitnessCleared ==
    /\ pc = "grab"
    /\ grabs = 0
    /\ files = <<>>
    /\ keyboard_listener

-----------------------------------------------------------------------------
(* Properties of calibrate_book_region *)

\* C8: when the consensus search returns a region, it issued as many
\* click_prev_page calls as click_next_page calls.
C8_RetreatEqualsAdvance ==
    cal_result = "search" => prev_clicks = next_clicks

\* left < right, top < bottom, all four inside the screen
RegionWellFormed(r) ==
    /\ r[1] < r[3]
    /\ r[2] < r[4]
    /\ 0 <= r[1]
    /\ 0 <= r[2]
    /\ r[3] <= ScreenWidth
    /\ r[4] <= ScreenHeight

\* C16: every region calibrate_book_region returns (the directly detected
\* one of detect_book_region_from_title_page and the one of the page
\* search) and the region prepare_kindle_for_capture builds from a detected
\* one are well-formed, whatever page bounds were observed.
C16_RegionWellFormed ==
    cal_region # None =>
        /\ RegionWellFormed(cal_region)
        /\ cal_result = "direct" =>
               RegionWellFormed(prepare_book_region(cal_region))

\* C17: when the edges found by the direct detection span less than 20% of
\* the screen width or less than 30% of the screen height, the calibrator
\* returns no directly detected region: it goes on to the page search.
C17_SmallDetectionFallsThrough ==
    ( /\ title_edges # None
      /\ \/ 10 * (title_edges[3] - title_edges[1]) < 2 * ScreenWidth
         \/ 10 * (title_edges[4] - title_edges[2]) < 3 * ScreenHeight )
    => cal_result # "direct"

IsPrefix(p, q) == Len(p) <= Len(q) /\ SubSeq(q, 1, Len(p)) = p

SpecEdges == <<300, 700, 702, 701, 703, 703>>

\* C9 as stated: on the right edges 300, 700, 702, 701, 703, 703 stability is
\* found at the 5th or 6th observation, on the window 701, 703, 703, and the
\* region's right bound is 703 + padding, clamped to the screen width.
C9_StableAtFifthOrSixth ==
    (cal_result = "search" /\ found_stable_right
        /\ IsPrefix(recent_right_edges, SpecEdges)) =>
        /\ Len(recent_right_edges) \in {5, 6}
        /\ LastEdges(recent_right_edges) = <<701, 703, 703>>
        /\ cal_region[3] = Min(ScreenWidth, 703 + padding)

\* C9 amended: on the right edges 300, 700, 702, 701, 703, 703 the search
\* finds no stable edge on the first three observations, finds it at the 4th
\* (window 700, 702, 701), observes no further page, and returns a region
\* whose right bound is 702 + padding, clamped to the screen width.
C9_StableAtFourth ==
    IsPrefix(recent_right_edges, SpecEdges) =>
        /\ Len(recent_right_edges) <= 4
        /\ Len(recent_right_edges) < 4 => ~found_stable_right
        /\ Len(recent_right_edges) = 4 =>
              /\ found_stable_right
              /\ cal_pc # "search"
              /\ LastEdges(recent_right_edges) = <<700, 702, 701>>
        /\ (cal_result = "search" /\ found_stable_right) =>
              /\ stable_right_edge = 702
              /\ cal_region[3] = Min(ScreenWidth, 702 + padding)

C9_Witness ==
    /\ cal_result = "search"
    /\ found_stable_right
    /\ recent_right_edges = <<300, 700, 702, 701>>
    /\ cal_region[3] = 722

\* the search returned a region without having found a stable right edge
NoStableEdge == cal_result = "search" /\ ~found_stable_right

\* observed pages whose right edge is at least 90% of the screen width
FullWidthPages ==
    { i \in 1..Len(recent_right_edges) :
        10 * recent_right_edges[i] >= 9 * ScreenWidth }

C21_WitnessMax ==
    /\ NoStableEdge
    /\ recent_right_edges = <<300, 990, 700, 990, 300>>
    /\ stable_right_edge = 990

\* the last `consecutive_matches_needed` of the first k observed right
\* edges lie within the tolerance
StableAt(k) ==
    /\ k >= consecutive_matches_needed
    /\ \A i, j \in (k - consecutive_matches_needed + 1)..k :
          recent_right_edges[i] - recent_right_edges[j] <= tolerance

\* steps calibrate_book_region can still take before it returns, at most
CalStepsLeft ==
    CASE cal_pc = "start" -> max_pages_to_search + 2
      [] cal_pc = "search" -> (max_pages_to_search - loop_i) + 1
      [] cal_pc = "finish" -> 1
      [] OTHER -> 0

\* C22: the search terminates (every step of calibrate_book_region lowers
\* the number of steps left, which is never negative, and a step is
\* possible until the function has returned); it samples at most
\* max_pages_to_search pages and issues at most that many advances; it
\* stops at the first observation at which the last three right edges lie
\* within the tolerance and samples no page after such an observation.
C22_SearchTerminates ==
    /\ [][CalStepsLeft' < CalStepsLeft]_<<cal_pc, loop_i>>
    /\ [] ( /\ CalStepsLeft >= 0
            /\ cal_pc # "returned" =>
                  ENABLED (cal_start \/ cal_iteration \/ cal_finish)
            /\ Len(recent_right_edges) <= max_pages_to_search
            /\ next_clicks <= max_pages_to_search
            /\ \A k \in 1..(Len(recent_right_edges) - 1) : ~StableAt(k)
            /\ StableAt(Len(recent_right_edges)) =>
                  /\ found_stable_right
                  /\ cal_pc # "search"
            /\ found_stable_right => StableAt(Len(recent_right_edges)) )

\* the cap is reached without a stable window: 5 pages sampled, 5 advances
C22_Witness ==
    /\ cal_pc = "returned"
    /\ max_pages_to_search = 5
    /\ Len(recent_right_edges) = 5
    /\ next_clicks = 5
    /\ ~found_stable_right

\* the search stops at the 4th of at most 5 pages
C22_WitnessStable ==
    /\ cal_pc = "returned"
    /\ max_pages_to_search = 5
    /\ Len(recent_right_edges) = 4
    /\ found_stable_right

\* C30: the branch that guesses the right edge as 60% of the screen width
\* is never taken: for every max_pages_to_search >= 0 and all observed
\* right edges, a search without a stable edge uses the full width or the
\* maximum right edge.
C30_GuessNeverTaken ==
    /\ right_source # "guess"
    /\ NoStableEdge =>
          /\ right_source \in {"full", "max"}
          /\ recent_right_edges = <<>> => right_source = "full"

\* no page is sampled at all: the full-width branch is taken (0 >= 0)
C30_Witness ==
    /\ NoStableEdge
    /\ max_pages_to_search = 0
    /\ recent_right_edges = <<>>
    /\ right_source = "full"
    /\ stable_right_edge = ScreenWidth

-----------------------------------------------------------------------------
(* Properties of find_text_in_region *)

\* the same letter in either case
SameLetter(a, b) ==
    \/ a = b
    \/ {a, b} = {"B", "b"}
    \/ {a, b} = {"E", "e"}

\* text holds sub somewhere, letter case disregarded
HoldsIgnoringCase(text, sub) ==
    \E k \in 0..(Len(text) - Len(sub)) :
        \A j \in 1..Len(sub) : SameLetter(text[k + j], sub[j])

MatchingWords ==
    {find_words[k] : k \in {j \in 1..Len(find_words) :
                              HoldsIgnoringCase(find_words[j].text, search_text)}}

\* C24: find_text_in_region returns None exactly when no recognized word
\* holds the target text (case disregarded); otherwise it returns a matching
\* word of smallest y when take_topmost is set and of largest y when it is
\* not, with the word's centre divided by scale_factor and shifted by the
\* region's left and top.
C24_FindText ==
    find_pc = "done" =>
        /\ find_result = None <=> MatchingWords = {}
        /\ find_result # None =>
             LET w == find_result[3]
             IN /\ w \in MatchingWords
                /\ take_topmost => \A m \in MatchingWords : w.y <= m.y
                /\ ~take_topmost => \A m \in MatchingWords : w.y >= m.y
                /\ find_result[1] = region_bbox[1] + w.center_x \div scale_factor
                /\ find_result[2] = region_bbox[2] + w.center_y \div scale_factor

\* the bottommost of two matches at different heights, case differing
C24_Witness ==
    /\ find_pc = "done"
    /\ ~take_topmost
    /\ scale_factor = 2
    /\ region_bbox[1] > 0
    /\ search_text = <<"B", "E">>
    /\ Len(find_words) = 2
    /\ find_words[1].y > find_words[2].y
    /\ find_words[1].text = <<"b", "e">>
    /\ find_words[2].text = <<"B", "e">>
    /\ find_result # None
    /\ find_result[3] = find_words[1]

\* no match although words were recognized
C24_WitnessNone ==
    /\ find_pc = "done"
    /\ Len(find_words) = 2
    /\ search_text = <<"e", "b">>
    /\ find_result = None

-----------------------------------------------------------------------------
(* Properties of wait_for_fullscreen_message_to_disappear *)

\* C25: the wait checks the stop flag before every OCR poll, polls at most
\* 20 times, returns as soon as a poll does not find the banner, returns
\* success after the twentieth poll, and can always take a step until it
\* has returned or exited.
C25_BoundedWait ==
    /\ wait_polls <= 20
    /\ wait_pc = "poll" => wait_checks = wait_polls + 1
    /\ wait_pc = "check" =>
          /\ wait_checks = wait_polls
          /\ wait_polls > 0 => wait_found
    /\ wait_pc = "exited" => STOP_FLAG /\ wait_checks = wait_polls + 1
    /\ wait_pc = "returned" =>
          /\ wait_result = TRUE
          /\ wait_checks = wait_polls
          /\ wait_found => wait_polls = 20
    /\ wait_pc \in {"start", "check", "poll"} =>
          ENABLED (wait_start \/ wait_check \/ wait_poll)

\* the banner stayed for all twenty polls
C25_Witness ==
    /\ wait_pc = "returned"
    /\ wait_polls = 20
    /\ wait_found
    /\ wait_result = TRUE

\* the banner was gone at the third poll
C25_WitnessEarly ==
    /\ wait_pc = "returned"
    /\ wait_polls = 3
    /\ ~wait_found

\* stopped between two polls
C25_WitnessStopped ==
    /\ wait_pc = "exited"
    /\ wait_polls = 2

-----------------------------------------------------------------------------
(* Properties of the navigation locator *)

\* C10: for each side, when no column of the strip has a gradient sum above
\* twice the mean column gradient sum (the peak is below it or equal to it),
\* the anchor stored for that side is the hover point of that side.
C10_FallbackIsHoverPoint ==
    /\ right_peak \in {"below", "equal"} =>
            ARROW_RIGHT_POS = HoverPoint(book_region, "right")
    /\ left_peak \in {"below", "equal"} =>
            ARROW_LEFT_POS = HoverPoint(book_region, "left")

NavEvents == <<"move_right", "grab_right", "move_left", "grab_left",
               "move_centre">>

\* C23: detect_arrow_positions moves the pointer to the right hover point,
\* captures the screen for the right side, moves to the left hover point,
\* captures the screen for the left side and, whether a glyph was found or
\* not on either side, ends with a move to the screen centre; both anchors
\* are points when it returns.
C23_EventOrder ==
    /\ IsPrefix(nav_log, NavEvents)
    /\ nav_pc = "right" => nav_log = <<>>
    /\ nav_pc = "left" =>
          /\ nav_log = SubSeq(NavEvents, 1, 2)
          /\ pointer = HoverPoint(book_region, "right")
    /\ nav_pc = "centre" =>
          /\ nav_log = SubSeq(NavEvents, 1, 4)
          /\ pointer = HoverPoint(book_region, "left")
    /\ nav_pc = "returned" =>
          /\ nav_log = NavEvents
          /\ pointer = <<NavScreenWidth \div 2, NavScreenHeight \div 2>>
          /\ ARROW_RIGHT_POS # None /\ Len(ARROW_RIGHT_POS) = 2
          /\ ARROW_LEFT_POS # None /\ Len(ARROW_LEFT_POS) = 2

\* a glyph was found on the right, none on the left
C23_Witness ==
    /\ nav_pc = "returned"
    /\ right_peak = "above"
    /\ left_peak = "below"
    /\ ARROW_LEFT_POS = HoverPoint(book_region, "left")
    /\ ARROW_RIGHT_POS # HoverPoint(book_region, "right")
    /\ nav_log = NavEvents

====
